---- MODULE Spec2Model ----
(***************************************************************************)
(* Model of three components of scikit-fda:                                *)
(*   - skfda/representation/basis/_vector_basis.py   (VectorValued)        *)
(*   - skfda/preprocessing/.../_ddg_transformer.py   (DDGTransformer)      *)
(*   - skfda/exploratory/visualization/_parametric_plot.py (ParametricPlot)*)
(* Arrays are sequences (1-based); a Python index i is the TLA+ index i+1, *)
(* except where an operator says it keeps Python's 0-based indices.        *)
(***************************************************************************)
EXTENDS Integers, Sequences, FiniteSets, TLC

VARIABLES vv, out, ddg, dout, pp, canvas, pout

vars == <<vv, out, ddg, dout, pp, canvas, pout>>

----------------------------------------------------------------------------
(* Bounds of the model.                                                     *)

MaxChildren == 3
MaxChildBasis == 2
MaxPoints == 2
MaxSamples == 2
MaxOrder == 2
MaxMethods == 2
MaxLines == 4

(* Values the inputs are drawn from.                                        *)
DomainDims == {1, 2}
CodomainDims == {1, 2}
DomainUppers == {1, 2}
PointValues == {0, 1, 2}
Steps == {-2, -1, 1, 2}
Labels == {0, 1, 2}

----------------------------------------------------------------------------
(* Arithmetic and sequence helpers.                                         *)

Min(a, b) == IF a < b THEN a ELSE b

Max(a, b) == IF a > b THEN a ELSE b

RECURSIVE Pow(_, _)
Pow(b, e) == IF e = 0 THEN 1 ELSE b * Pow(b, e - 1)

RECURSIVE SumSeq(_)
SumSeq(s) == IF s = <<>> THEN 0 ELSE s[1] + SumSeq(Tail(s))

RECURSIVE Flatten(_)
Flatten(ss) == IF ss = <<>> THEN <<>> ELSE ss[1] \o Flatten(Tail(ss))

(* All sequences over S of length lo..hi.                                   *)
SeqsOf(S, lo, hi) == UNION {[1..n -> S] : n \in lo..hi}

----------------------------------------------------------------------------
(* Scalar and non-scalar child bases handed to VectorValued.               *)
(* domain_range is a tuple of dim_domain intervals.                         *)

DomainRange(d, T) == [i \in 1..d |-> <<0, T>>]

Children ==
    {[n_basis |-> n, dim_domain |-> d, dim_codomain |-> c,
      domain_range |-> DomainRange(d, T)] :
        n \in 1..MaxChildBasis, d \in DomainDims, c \in CodomainDims,
        T \in DomainUppers}

(* _same_domain(fd, fd2): the two domain ranges are equal arrays.           *)
_same_domain(b, b0) == b.domain_range = b0.domain_range

----------------------------------------------------------------------------
(* VectorValued.__init__.  The object is a record: raised is the exception  *)
(* that left the constructor ("None" when it returned), attrs the set of    *)
(* attributes assigned so far, and the attribute values.                    *)

NoAttrs ==
    [raised |-> "None", attrs |-> {}, _basis_list |-> <<>>,
     domain_range |-> <<>>, n_basis |-> 0]

(* A constructor that assigns _basis_list before it validates.              *)
VectorValued_init_SetsFirst(basis_list) ==
    IF \E i \in DOMAIN basis_list : basis_list[i].dim_codomain # 1
    THEN [NoAttrs EXCEPT !.raised = "ValueError",
                         !.attrs = {"_basis_list"},
                         !._basis_list = basis_list]
    ELSE IF \E i \in DOMAIN basis_list :
                \/ basis_list[i].dim_domain # basis_list[1].dim_domain
                \/ ~_same_domain(basis_list[i], basis_list[1])
    THEN [NoAttrs EXCEPT !.raised = "ValueError",
                         !.attrs = {"_basis_list"},
                         !._basis_list = basis_list]
    ELSE IF basis_list = <<>>
    THEN [NoAttrs EXCEPT !.raised = "IndexError",
                         !.attrs = {"_basis_list"},
                         !._basis_list = basis_list]
    ELSE [raised |-> "None",
          attrs |-> {"_basis_list", "domain_range", "n_basis"},
          _basis_list |-> basis_list,
          domain_range |-> basis_list[1].domain_range,
          n_basis |-> SumSeq([i \in DOMAIN basis_list |-> basis_list[i].n_basis])]

(* A constructor that takes n_basis from the first child alone.             *)
VectorValued_init_FirstCount(basis_list) ==
    IF \E i \in DOMAIN basis_list : basis_list[i].dim_codomain # 1
    THEN [NoAttrs EXCEPT !.raised = "ValueError"]
    ELSE IF \E i \in DOMAIN basis_list :
                \/ basis_list[i].dim_domain # basis_list[1].dim_domain
                \/ ~_same_domain(basis_list[i], basis_list[1])
    THEN [NoAttrs EXCEPT !.raised = "ValueError"]
    ELSE IF basis_list = <<>>
    THEN [NoAttrs EXCEPT !.raised = "IndexError",
                         !.attrs = {"_basis_list"},
                         !._basis_list = basis_list]
    ELSE [raised |-> "None",
          attrs |-> {"_basis_list", "domain_range", "n_basis"},
          _basis_list |-> basis_list,
          domain_range |-> basis_list[1].domain_range,
          n_basis |-> basis_list[1].n_basis]

(* VectorValued(basis_list), in the order of the code: the codomain check,  *)
(* the domain check, self._basis_list = ..., then Basis.__init__ with       *)
(* basis_list[0].domain_range (IndexError on an empty tuple) and the sum.   *)
VectorValued_init(basis_list) ==
    IF ~(\A i \in DOMAIN basis_list : basis_list[i].dim_codomain = 1)
    THEN [NoAttrs EXCEPT !.raised = "ValueError"]
    ELSE IF \E i \in DOMAIN basis_list :
                \/ basis_list[i].dim_domain # basis_list[1].dim_domain
                \/ ~_same_domain(basis_list[i], basis_list[1])
    THEN [NoAttrs EXCEPT !.raised = "ValueError"]
    ELSE IF basis_list = <<>>
    THEN [NoAttrs EXCEPT !.raised = "IndexError",
                         !.attrs = {"_basis_list"},
                         !._basis_list = basis_list]
    ELSE [raised |-> "None",
          attrs |-> {"_basis_list", "domain_range", "n_basis"},
          _basis_list |-> basis_list,
          domain_range |-> basis_list[1].domain_range,
          n_basis |-> SumSeq([i \in DOMAIN basis_list |-> basis_list[i].n_basis])]

(* The properties of a constructed VectorValued.                            *)
basis_list(self) == self._basis_list

dim_domain(self) == basis_list(self)[1].dim_domain

dim_codomain(self) == Len(basis_list(self))

(* First row (0-based) of the band of child i: the n_basis of the children  *)
(* before it.                                                               *)
Offset(bl, i) == SumSeq([j \in 1..(i - 1) |-> bl[j].n_basis])

----------------------------------------------------------------------------
(* Child bases are Monomial bases, as in the example of the class           *)
(* docstring: 1, t, t^2, ... evaluated at the (first coordinate of the)     *)
(* points.  b.evaluate(points) has shape (n_basis, n_points, 1).            *)

ChildEvaluate(b, eval_points) ==
    [j \in 1..b.n_basis |->
        [p \in 1..Len(eval_points) |-> <<Pow(eval_points[p], j - 1)>>]]

(* np.zeros(shape) for a 3-D shape.                                         *)
Zeros3(n0, n1, n2) == [r \in 1..n0 |-> [p \in 1..n1 |-> [c \in 1..n2 |-> 0]]]

(* The loop of _evaluate:                                                   *)
(*   matrix[n_basis_eval:n_basis_eval + len(ev), :, i] = ev[..., 0]         *)
(*   n_basis_eval += len(ev)                                                *)
RECURSIVE EvaluateLoop(_, _, _, _)
EvaluateLoop(matrix, basis_evaluations, i, n_basis_eval) ==
    IF i > Len(basis_evaluations) THEN matrix
    ELSE LET ev == basis_evaluations[i]
             written ==
                 [r \in DOMAIN matrix |->
                     IF r > n_basis_eval /\ r <= n_basis_eval + Len(ev)
                     THEN [p \in DOMAIN matrix[r] |->
                             [matrix[r][p] EXCEPT
                                 ![i] = ev[r - n_basis_eval][p][1]]]
                     ELSE matrix[r]]
         IN  EvaluateLoop(written, basis_evaluations, i + 1,
                          n_basis_eval + Len(ev))

(* The loop with the band offset never advanced.                            *)
RECURSIVE EvaluateLoopNoAdvance(_, _, _, _)
EvaluateLoopNoAdvance(matrix, basis_evaluations, i, n_basis_eval) ==
    IF i > Len(basis_evaluations) THEN matrix
    ELSE LET ev == basis_evaluations[i]
             written ==
                 [r \in DOMAIN matrix |->
                     IF r > n_basis_eval /\ r <= n_basis_eval + Len(ev)
                     THEN [p \in DOMAIN matrix[r] |->
                             [matrix[r][p] EXCEPT
                                 ![i] = ev[r - n_basis_eval][p][1]]]
                     ELSE matrix[r]]
         IN  EvaluateLoopNoAdvance(written, basis_evaluations, i + 1,
                                   n_basis_eval)

_evaluate_NoAdvance(self, eval_points) ==
    EvaluateLoopNoAdvance(
        Zeros3(self.n_basis, Len(eval_points), dim_codomain(self)),
        [i \in DOMAIN basis_list(self) |->
            ChildEvaluate(basis_list(self)[i], eval_points)],
        1, 0)

(* VectorValued._evaluate.                                                  *)
_evaluate(self, eval_points) ==
    EvaluateLoop(
        Zeros3(self.n_basis, Len(eval_points), dim_codomain(self)),
        [i \in DOMAIN basis_list(self) |->
            ChildEvaluate(basis_list(self)[i], eval_points)],
        1, 0)

----------------------------------------------------------------------------
(* Differentiation.  A coefficient matrix is a sequence of rows (samples),  *)
(* each a sequence of n_basis numbers.                                      *)

(* np.cumsum.                                                               *)
cumsum(s) == [i \in DOMAIN s |-> SumSeq(SubSeq(s, 1, i))]

(* np.hsplit(coefs, points): the column sections [0:p1], [p1:p2], ...,      *)
(* [p_last:], with numpy's clamping of slice ends.                          *)
hsplit(coefs, points) ==
    [s \in 1..(Len(points) + 1) |->
        [r \in DOMAIN coefs |->
            LET lo == IF s = 1 THEN 0 ELSE Min(points[s - 1], Len(coefs[r]))
                hi == IF s = Len(points) + 1 THEN Len(coefs[r])
                      ELSE Min(points[s], Len(coefs[r]))
            IN  SubSeq(coefs[r], lo + 1, hi)]]

(* np.hstack of matrices with the same rows.                                *)
hstack(ms) ==
    IF ms = <<>> THEN <<>>
    ELSE [r \in DOMAIN ms[1] |-> Flatten([m \in DOMAIN ms |-> ms[m][r]])]

(* (j + order)! / j!, the factor polyder puts on the coefficient of         *)
(* t^(j + order).                                                           *)
RECURSIVE FallingFactor(_, _)
FallingFactor(j, order) ==
    IF order = 0 THEN 1 ELSE (j + order) * FallingFactor(j, order - 1)

(* Monomial._derivative_basis_and_coefs: the basis loses `order` functions  *)
(* and every row is the derivative polynomial's coefficients; an order      *)
(* beyond the degree gives the constant basis and zero coefficients.        *)
Child_derivative_basis_and_coefs(b, coefs, order) ==
    IF order > b.n_basis - 1
    THEN <<[b EXCEPT !.n_basis = 1], [r \in DOMAIN coefs |-> <<0>>]>>
    ELSE <<[b EXCEPT !.n_basis = b.n_basis - order],
           [r \in DOMAIN coefs |->
               [j \in 1..(b.n_basis - order) |->
                   FallingFactor(j - 1, order) * coefs[r][j + order]]]>>

(* np.hstack applied to the blocks in reverse order.                        *)
Reverse(s) == [i \in DOMAIN s |-> s[Len(s) + 1 - i]]

_derivative_basis_and_coefs_Reversed(self, coefs, order) ==
    LET n_basis_list == [i \in DOMAIN basis_list(self) |->
                            basis_list(self)[i].n_basis]
        indexes == cumsum(n_basis_list)
        coefs_per_basis == hsplit(coefs, SubSeq(indexes, 1, Len(indexes) - 1))
        basis_and_coefs ==
            [i \in 1..Min(Len(basis_list(self)), Len(coefs_per_basis)) |->
                Child_derivative_basis_and_coefs(
                    basis_list(self)[i], coefs_per_basis[i], order)]
    IN  <<VectorValued_init([i \in DOMAIN basis_and_coefs |->
                                basis_and_coefs[i][1]]),
          hstack(Reverse([i \in DOMAIN basis_and_coefs |->
                             basis_and_coefs[i][2]]))>>

(* VectorValued._derivative_basis_and_coefs: <<new_basis, new_coefs>>.      *)
_derivative_basis_and_coefs(self, coefs, order) ==
    LET n_basis_list == [i \in DOMAIN basis_list(self) |->
                            basis_list(self)[i].n_basis]
        indexes == cumsum(n_basis_list)
        coefs_per_basis == hsplit(coefs, SubSeq(indexes, 1, Len(indexes) - 1))
        basis_and_coefs ==
            [i \in 1..Min(Len(basis_list(self)), Len(coefs_per_basis)) |->
                Child_derivative_basis_and_coefs(
                    basis_list(self)[i], coefs_per_basis[i], order)]
    IN  <<VectorValued_init([i \in DOMAIN basis_and_coefs |->
                                basis_and_coefs[i][1]]),
          hstack([i \in DOMAIN basis_and_coefs |-> basis_and_coefs[i][2]])>>

----------------------------------------------------------------------------
(* Gram matrices.  An entry is a fraction <<numerator, denominator>>.       *)

Zero == <<0, 1>>

(* Monomial.gram_matrix over [0, T]: the integral of t^(i-1) t^(j-1).       *)
ChildGram(b) ==
    LET T == b.domain_range[1][2]
    IN  [i \in 1..b.n_basis |->
            [j \in 1..b.n_basis |-> <<Pow(T, i + j - 1), i + j - 1>>]]

(* scipy.linalg.block_diag: each matrix at the running (row, column) corner *)
(* of an otherwise zero matrix.                                             *)
RECURSIVE BlockCorner(_, _)
BlockCorner(ms, i) == IF i = 1 THEN 0 ELSE BlockCorner(ms, i - 1) + Len(ms[i - 1])

block_diag(ms) ==
    LET n == SumSeq([i \in DOMAIN ms |-> Len(ms[i])])
        blockOf(r) == CHOOSE i \in DOMAIN ms :
                         /\ BlockCorner(ms, i) < r
                         /\ r <= BlockCorner(ms, i) + Len(ms[i])
    IN  [r \in 1..n |->
            [c \in 1..n |->
                LET i == blockOf(r)
                    lo == BlockCorner(ms, i)
                IN  IF c > lo /\ c <= lo + Len(ms[i])
                    THEN ms[i][r - lo][c - lo]
                    ELSE Zero]]

(* A dense product in place of the block-diagonal assembly: every block of  *)
(* children (i, j) is filled from child i's matrix.                         *)
_gram_matrix_Dense(self) ==
    LET ms == [i \in DOMAIN basis_list(self) |-> ChildGram(basis_list(self)[i])]
        n == SumSeq([i \in DOMAIN ms |-> Len(ms[i])])
        blockOf(r) == CHOOSE i \in DOMAIN ms :
                         /\ BlockCorner(ms, i) < r
                         /\ r <= BlockCorner(ms, i) + Len(ms[i])
    IN  [r \in 1..n |->
            [c \in 1..n |->
                LET i == blockOf(r)
                    j == blockOf(c)
                IN  ms[i][r - BlockCorner(ms, i)]
                         [Min(c - BlockCorner(ms, j), Len(ms[i]))]]]

(* VectorValued._gram_matrix.                                               *)
_gram_matrix(self) ==
    block_diag([i \in DOMAIN basis_list(self) |->
                   ChildGram(basis_list(self)[i])])

----------------------------------------------------------------------------
(* Coordinate extraction.  A key is an int or a range; a range is the       *)
(* record [start, stop, step] (step # 0), and indices here are Python's     *)
(* 0-based ones.                                                            *)

IntKey(n) == [kind |-> "int", start |-> n, stop |-> n + 1, step |-> 1]

RangeKey(a, b, st) == [kind |-> "range", start |-> a, stop |-> b, step |-> st]

(* `i in r` for a Python range r.                                           *)
InRange(i, r) ==
    IF r.step > 0
    THEN r.start <= i /\ i < r.stop /\ (i - r.start) % r.step = 0
    ELSE r.stop < i /\ i <= r.start /\ (r.start - i) % (-r.step) = 0

(* slice.indices(len): a negative bound counts from the end, then both are  *)
(* clamped to [0, len] (step > 0) or to [-1, len - 1] (step < 0).           *)
SliceBound(v, len, step) ==
    LET w == IF v < 0 THEN v + len ELSE v
    IN  IF step > 0 THEN Max(0, Min(w, len)) ELSE Max(-1, Min(w, len - 1))

(* The 0-based indices seq[s] selects from a sequence of length len.        *)
SliceIndices(s, len) ==
    LET a == SliceBound(s.start, len, s.step)
        b == SliceBound(s.stop, len, s.step)
        n == IF s.step > 0
             THEN (IF a < b THEN ((b - a - 1) \div s.step) + 1 ELSE 0)
             ELSE (IF b < a THEN ((a - b - 1) \div (-s.step)) + 1 ELSE 0)
    IN  [j \in 1..n |-> a + (j - 1) * s.step]

(* seq[s] for a slice s.                                                    *)
GetSlice(seq, s) ==
    LET idx == SliceIndices(s, Len(seq)) IN [j \in DOMAIN idx |-> seq[idx[j] + 1]]

(* A slice that drops the step of the range.                                *)
s_key_NoStep(r_key) == [start |-> r_key.start, stop |-> r_key.stop, step |-> 1]

(* s_key = slice(r_key.start, r_key.stop, r_key.step)                       *)
s_key(r_key) == [start |-> r_key.start, stop |-> r_key.stop, step |-> r_key.step]

(* A mask that tests the 1-based position of the child.                     *)
coef_indexes_OneBased(self, r_key) ==
    Flatten([i \in DOMAIN basis_list(self) |->
                [c \in 1..basis_list(self)[i].n_basis |-> InRange(i, r_key)]])

(* coef_indexes: for every child (enumerate is 0-based) n_basis copies of   *)
(* `i in r_key`.                                                            *)
coef_indexes(self, r_key) ==
    Flatten([i \in DOMAIN basis_list(self) |->
                [c \in 1..basis_list(self)[i].n_basis |-> InRange(i - 1, r_key)]])

(* row[mask] for a boolean mask.                                            *)
RECURSIVE MaskSelect(_, _)
MaskSelect(row, mask) ==
    IF row = <<>> THEN <<>>
    ELSE (IF mask[1] THEN <<row[1]>> ELSE <<>>)
         \o MaskSelect(Tail(row), Tail(mask))

(* The result of a call that raised.                                        *)
Raised(e) ==
    [raised |-> e, basis |-> NoAttrs, coefficients |-> <<>>,
     coordinate_names |-> <<>>, dataset_name |-> "None"]

(* FDataBasis.copy(basis=, coefficients=, coordinate_names=): a new         *)
(* representation with the other attributes of the original; a coefficient  *)
(* matrix is samples x basis.n_basis, anything else is refused.             *)
FDataBasis_copy(fdatabasis, basis, coefs, coordinate_names) ==
    IF \E r \in DOMAIN coefs : Len(coefs[r]) # basis.n_basis
    THEN Raised("ValueError")
    ELSE [raised |-> "None", basis |-> basis, coefficients |-> coefs,
          coordinate_names |-> coordinate_names,
          dataset_name |-> fdatabasis.dataset_name]

(* VectorValued._coordinate_nonfull.                                        *)
_coordinate_nonfull(self, fdatabasis, key) ==
    LET r_key == IF key.kind = "int"
                 THEN RangeKey(key.start, key.start + 1, 1) ELSE key
        mask == coef_indexes(self, r_key)
        new_basis_list == GetSlice(basis_list(self), s_key(r_key))
        basis == IF key.kind = "int" THEN new_basis_list[1]
                 ELSE VectorValued_init(new_basis_list)
        coefs == [r \in DOMAIN fdatabasis.coefficients |->
                     MaskSelect(fdatabasis.coefficients[r], mask)]
        coordinate_names == GetSlice(fdatabasis.coordinate_names, s_key(r_key))
    IN  IF key.kind = "int" /\ new_basis_list = <<>> THEN Raised("IndexError")
        ELSE IF key.kind # "int" /\ basis.raised # "None" THEN Raised(basis.raised)
        ELSE FDataBasis_copy(fdatabasis, basis, coefs, coordinate_names)

----------------------------------------------------------------------------
(* The inputs of the VectorValued operations.                               *)

BasisLists == SeqsOf(Children, 0, MaxChildren)

PointLists == SeqsOf(PointValues, 0, MaxPoints)

(* A coefficient matrix whose entries name their row and column.            *)
CoefMatrix(ns, n) == [r \in 1..ns |-> [c \in 1..n |-> r * (n + 1) + c]]

(* An FDataBasis over the basis `self`, one coordinate name per child.      *)
FDataBases(self) ==
    {[basis |-> self, coefficients |-> CoefMatrix(ns, self.n_basis),
      coordinate_names |-> [i \in 1..dim_codomain(self) |-> i],
      dataset_name |-> "growth"] : ns \in 1..MaxSamples}

KeyRange(self) == (-(dim_codomain(self) + 1))..(dim_codomain(self) + 1)

Keys(self) ==
    {IntKey(n) : n \in KeyRange(self)}
    \cup {RangeKey(a, b, st) : a \in KeyRange(self), b \in KeyRange(self),
                               st \in Steps}

----------------------------------------------------------------------------
(* State: vv is the VectorValued object under test (raised = "Unborn"       *)
(* before its constructor runs, which happens once), out the call made on   *)
(* it and its result.  Calls are synchronous: out holds a result until the  *)
(* caller has taken it (Release), and only then is the next call made.      *)

Unborn == [NoAttrs EXCEPT !.raised = "Unborn"]

InitVV ==
    /\ vv = Unborn
    /\ out = [op |-> "none"]

Idle == out.op \in {"none", "idle"}

Construct ==
    /\ vv.raised = "Unborn"
    /\ \E bl \in BasisLists :
          /\ vv' = VectorValued_init(bl)
          /\ out' = [op |-> "init", basis_list |-> bl]
    /\ UNCHANGED <<ddg, dout, pp, canvas, pout>>

Evaluate ==
    /\ vv.raised = "None"
    /\ Idle
    /\ \E eval_points \in PointLists :
          out' = [op |-> "evaluate", eval_points |-> eval_points,
                  matrix |-> _evaluate(vv, eval_points)]
    /\ UNCHANGED <<vv, ddg, dout, pp, canvas, pout>>

Derivative ==
    /\ vv.raised = "None"
    /\ Idle
    /\ \E fd \in FDataBases(vv), order \in 0..MaxOrder :
          out' = [op |-> "derivative", coefs |-> fd.coefficients,
                  order |-> order,
                  result |-> _derivative_basis_and_coefs(
                                 vv, fd.coefficients, order)]
    /\ UNCHANGED <<vv, ddg, dout, pp, canvas, pout>>

GramMatrix ==
    /\ vv.raised = "None"
    /\ Idle
    /\ out' = [op |-> "gram", matrix |-> _gram_matrix(vv)]
    /\ UNCHANGED <<vv, ddg, dout, pp, canvas, pout>>

Coordinate ==
    /\ vv.raised = "None"
    /\ Idle
    /\ \E fdatabasis \in FDataBases(vv), key \in Keys(vv) :
          out' = [op |-> "coordinate", fdatabasis |-> fdatabasis, key |-> key,
                  result |-> _coordinate_nonfull(vv, fdatabasis, key)]
    /\ UNCHANGED <<vv, ddg, dout, pp, canvas, pout>>

Release ==
    /\ ~Idle
    /\ out' = [op |-> "idle"]
    /\ UNCHANGED <<vv, ddg, dout, pp, canvas, pout>>

NextVV ==
    \/ Construct
    \/ Evaluate
    \/ Derivative
    \/ GramMatrix
    \/ Coordinate
    \/ Release

----------------------------------------------------------------------------
(* DDGTransformer.  A depth method is named by its class; the optional      *)
(* depth_methods argument is [given, list].                                 *)

Methods == {"ModifiedBandDepth", "IntegratedDepth"}

NoMethods == [given |-> FALSE, list |-> <<>>]

MethodLists ==
    {NoMethods}
    \cup {[given |-> TRUE, list |-> l] : l \in SeqsOf(Methods, 0, MaxMethods)}

(* DDGTransformer.__init__                                                  *)
DDGTransformer_init(depth_method, depth_methods) ==
    [depth_methods |-> IF ~depth_methods.given THEN <<depth_method>>
                       ELSE depth_methods.list,
     attrs |-> {}, classes_ |-> <<>>, distributions_ |-> <<>>]

(* The sorted unique labels of y.                                           *)
RECURSIVE SortedSeq(_)
SortedSeq(S) ==
    IF S = {} THEN <<>>
    ELSE LET m == CHOOSE x \in S : \A z \in S : x <= z
         IN  <<m>> \o SortedSeq(S \ {m})

(* _classifier_fit_distributions(X, y, depth_methods): the classes found in *)
(* y and, for every class and every depth method, that depth fitted to the  *)
(* samples of the class.                                                    *)
_classifier_fit_distributions(X, y, depth_methods) ==
    LET classes_ == SortedSeq({y[i] : i \in DOMAIN y})
    IN  <<classes_,
          Flatten([c \in DOMAIN classes_ |->
                      [m \in DOMAIN depth_methods |->
                          [class |-> classes_[c], depth |-> depth_methods[m]]]])>>

(* DDGTransformer.fit                                                       *)
fit(self, X, y) ==
    LET fitted == _classifier_fit_distributions(X, y, self.depth_methods)
    IN  [self EXCEPT !.classes_ = fitted[1], !.distributions_ = fitted[2],
                     !.attrs = {"classes_", "distributions_"}]

(* sklearn's check_is_fitted(self): some attribute ending in "_" is set.    *)
check_is_fitted(self) == self.attrs # {}

(* distribution.predict(X): one depth value per sample of X.                *)
predict(distribution, X) ==
    [i \in 1..X.n_samples |-> <<distribution.class, distribution.depth, i>>]

(* np.array(list of equal-length vectors): an empty list is the 1-D empty   *)
(* array.                                                                   *)
np_array(rows) ==
    [shape |-> IF rows = <<>> THEN <<0>> ELSE <<Len(rows), Len(rows[1])>>,
     data |-> rows]

(* np.transpose: the axes reversed; a 1-D array is returned as it is.       *)
np_transpose(a) ==
    IF Len(a.shape) = 1 THEN a
    ELSE [shape |-> <<a.shape[2], a.shape[1]>>,
          data |-> [i \in 1..a.shape[2] |->
                       [g \in 1..a.shape[1] |-> a.data[g][i]]]]

(* DDGTransformer.transform: [raised, result].                              *)
transform(self, X) ==
    IF ~check_is_fitted(self)
    THEN [raised |-> "NotFittedError", result |-> np_array(<<>>)]
    ELSE [raised |-> "None",
          result |-> np_transpose(np_array(
              [g \in DOMAIN self.distributions_ |->
                  predict(self.distributions_[g], X)]))]

(* X is known by its number of samples, y is one label per sample.          *)
Xs == {[n_samples |-> n] : n \in 1..MaxSamples}

InitDDG ==
    /\ \E dm \in Methods, dms \in MethodLists : ddg = DDGTransformer_init(dm, dms)
    /\ dout = [op |-> "none"]

Fit ==
    /\ \E X \in Xs : \E y \in [1..X.n_samples -> Labels] :
          /\ ddg' = fit(ddg, X, y)
          /\ dout' = [op |-> "fit", X |-> X, y |-> y]
    /\ UNCHANGED <<vv, out, pp, canvas, pout>>

Transform ==
    /\ \E X \in Xs :
          dout' = [op |-> "transform", X |-> X, call |-> transform(ddg, X)]
    /\ UNCHANGED <<vv, out, ddg, pp, canvas, pout>>

NextDDG == Fit \/ Transform

----------------------------------------------------------------------------
(* ParametricPlot.  An FData is known by its sizes, its names and, per      *)
(* sample and coordinate, a token for the sampled values of that coordinate *)
(* function.                                                                *)

NoFData ==
    [n_samples |-> 0, dim_domain |-> 0, dim_codomain |-> 0,
     dataset_name |-> "None", coordinate_names |-> <<>>, data_matrix |-> <<>>]

FDatas ==
    {[n_samples |-> n, dim_domain |-> d, dim_codomain |-> c,
      dataset_name |-> IF named THEN "growth" ELSE "None",
      coordinate_names |-> [i \in 1..c |-> IF named THEN "height" ELSE "None"],
      data_matrix |-> [s \in 1..n |-> [i \in 1..c |-> <<"fdata", s, i>>]]] :
        n \in 1..MaxSamples, d \in DomainDims, c \in CodomainDims,
        named \in BOOLEAN}

(* The token of a coordinate of the second operand of a concatenation.      *)
Other(token) == <<"other", token[2], token[3]>>

(* FData.concatenate(other, as_coordinates=True): the codomains stacked;    *)
(* it requires equal sample counts and equal domains.                       *)
concatenate(self, other) ==
    IF self.n_samples # other.n_samples \/ self.dim_domain # other.dim_domain
    THEN [raised |-> "ValueError", value |-> NoFData]
    ELSE [raised |-> "None",
          value |-> [n_samples |-> self.n_samples,
                     dim_domain |-> self.dim_domain,
                     dim_codomain |-> self.dim_codomain + other.dim_codomain,
                     dataset_name |-> self.dataset_name,
                     coordinate_names |->
                         self.coordinate_names \o other.coordinate_names,
                     data_matrix |->
                         [s \in 1..self.n_samples |->
                             self.data_matrix[s]
                             \o [i \in DOMAIN other.data_matrix[s] |->
                                    Other(other.data_matrix[s][i])]]]]

(* ParametricPlot.__init__                                                  *)
ParametricPlot_init(fdata1, fdata2) ==
    [fdata1 |-> fdata1, fdata2 |-> fdata2, attrs |-> {"fdata1", "fdata2"},
     fd_final |-> NoFData]

(* A figure with one axes and nothing on it.                                *)
EmptyCanvas ==
    [lines |-> <<>>, title |-> "None", xlabel |-> "None", ylabel |-> "None"]

(* _get_figure_and_axes(chart, fig, ax): the figure given, or a new one.    *)
_get_figure_and_axes(chart, current) ==
    IF chart = "None" THEN EmptyCanvas ELSE current

(* The lines of the loop over fd_final.data_matrix.                         *)
PlotLines(fd_final) ==
    [s \in 1..fd_final.n_samples |->
        <<fd_final.data_matrix[s][1], fd_final.data_matrix[s][2]>>]

(* The title and the axis labels set after the loop.                        *)
Decorate(fig, fd_final) ==
    [fig EXCEPT
        !.title = IF fd_final.dataset_name # "None"
                  THEN fd_final.dataset_name ELSE @,
        !.xlabel = IF fd_final.coordinate_names[1] = "None"
                   THEN "Function 1" ELSE fd_final.coordinate_names[1],
        !.ylabel = IF fd_final.coordinate_names[2] = "None"
                   THEN "Function 2" ELSE fd_final.coordinate_names[2]]

(* plot with the title set before the dimensions are checked.               *)
plot_TitleFirst(self, chart, current) ==
    LET fig == _get_figure_and_axes(chart, current)
        cat == IF self.fdata2 # NoFData
               THEN concatenate(self.fdata1, self.fdata2)
               ELSE [raised |-> "None", value |-> self.fdata1]
        fd_final == cat.value
        titled == [fig EXCEPT !.title = IF fd_final.dataset_name # "None"
                                        THEN fd_final.dataset_name ELSE @]
    IN  IF cat.raised # "None"
        THEN [raised |-> cat.raised, self |-> self, fig |-> fig]
        ELSE IF fd_final.dim_domain = 1 /\ fd_final.dim_codomain = 2
        THEN [raised |-> "None",
              self |-> [self EXCEPT !.fd_final = fd_final,
                                    !.attrs = @ \cup {"fd_final"}],
              fig |-> Decorate(
                  [fig EXCEPT !.lines = @ \o PlotLines(fd_final)], fd_final)]
        ELSE [raised |-> "ValueError",
              self |-> [self EXCEPT !.fd_final = fd_final,
                                    !.attrs = @ \cup {"fd_final"}],
              fig |-> titled]

(* ParametricPlot.plot: [raised, self, fig], the object and the figure as   *)
(* the call leaves them.                                                    *)
plot(self, chart, current) ==
    LET fig == _get_figure_and_axes(chart, current)
        cat == IF self.fdata2 # NoFData
               THEN concatenate(self.fdata1, self.fdata2)
               ELSE [raised |-> "None", value |-> self.fdata1]
        fd_final == cat.value
    IN  IF cat.raised # "None"
        THEN [raised |-> cat.raised, self |-> self, fig |-> fig]
        ELSE IF fd_final.dim_domain = 1 /\ fd_final.dim_codomain = 2
        THEN [raised |-> "None",
              self |-> [self EXCEPT !.fd_final = fd_final,
                                    !.attrs = @ \cup {"fd_final"}],
              fig |-> Decorate(
                  [fig EXCEPT !.lines = @ \o PlotLines(fd_final)], fd_final)]
        ELSE [raised |-> "ValueError",
              self |-> [self EXCEPT !.fd_final = fd_final,
                                    !.attrs = @ \cup {"fd_final"}],
              fig |-> fig]

Charts == {"None", "current"}

(* A figure the caller already drew on.                                     *)
UsedCanvas ==
    [lines |-> << << <<"old", 1, 1>>, <<"old", 1, 2>> >> >>,
     title |-> "earlier", xlabel |-> "x", ylabel |-> "y"]

InitPlot ==
    /\ \E f1 \in FDatas, f2 \in FDatas \cup {NoFData} :
          pp = ParametricPlot_init(f1, f2)
    /\ canvas \in {EmptyCanvas, UsedCanvas}
    /\ pout = [op |-> "none"]

(* plot(chart): canvas is the figure of the latest call.  Drawing on the    *)
(* current figure is bounded by MaxLines.                                   *)
Plot ==
    /\ \E chart \in Charts :
          /\ chart = "current" =>
                 Len(canvas.lines) + pp.fdata1.n_samples <= MaxLines
          /\ LET call == plot(pp, chart, canvas)
             IN  /\ pp' = call.self
                 /\ canvas' = call.fig
                 /\ pout' = [op |-> "plot", chart |-> chart,
                             before |-> _get_figure_and_axes(chart, canvas),
                             raised |-> call.raised]
    /\ UNCHANGED <<vv, out, ddg, dout>>

NextPlot == Plot

----------------------------------------------------------------------------
(* The specifications: one per component; the other components stay as      *)
(* constructed.                                                             *)

IdleVV == vv = Unborn /\ out = [op |-> "none"]

IdleDDG ==
    /\ ddg = DDGTransformer_init("ModifiedBandDepth", NoMethods)
    /\ dout = [op |-> "none"]

IdlePlot ==
    /\ pp = ParametricPlot_init(NoFData, NoFData)
    /\ canvas = EmptyCanvas
    /\ pout = [op |-> "none"]

Init == InitVV /\ IdleDDG /\ IdlePlot

Next == NextVV

Spec == Init /\ [][Next]_vars

InitOfDDG == IdleVV /\ InitDDG /\ IdlePlot

SpecDDG == InitOfDDG /\ [][NextDDG]_vars

InitOfPlot == IdleVV /\ IdleDDG /\ InitPlot

SpecPlot == InitOfPlot /\ [][NextPlot]_vars

----------------------------------------------------------------------------
(* Properties of VectorValued (checked under Spec).                         *)

(* The columns of child i (1-based) in a coefficient row.                   *)
Block(bl, row, i) == SubSeq(row, Offset(bl, i) + 1, Offset(bl, i) + bl[i].n_basis)

(* C1: evaluating a VectorValued basis of k >= 1 children at n points gives *)
(* an array of shape (n_basis, n, k); the rows of the band of child i equal *)
(* that child's own evaluation in coordinate slot i and are zero in every   *)
(* other slot.                                                              *)
C1_EvaluateBands ==
    out.op = "evaluate" =>
        LET bl == basis_list(vv)
            pts == out.eval_points
            m == out.matrix
        IN  /\ Len(m) = SumSeq([i \in DOMAIN bl |-> bl[i].n_basis])
            /\ \A r \in DOMAIN m :
                  /\ Len(m[r]) = Len(pts)
                  /\ \A p \in DOMAIN m[r] : Len(m[r][p]) = Len(bl)
            /\ \A i \in DOMAIN bl : \A j \in 1..bl[i].n_basis :
                  \A p \in DOMAIN pts : \A c \in DOMAIN bl :
                      m[Offset(bl, i) + j][p][c] =
                          IF c = i THEN ChildEvaluate(bl[i], pts)[j][p][1] ELSE 0

C1_Witness ==
    /\ out.op = "evaluate"
    /\ Len(basis_list(vv)) >= 2
    /\ basis_list(vv)[1].n_basis = 2
    /\ basis_list(vv)[2].n_basis = 2
    /\ Len(out.eval_points) = 2
    /\ out.eval_points[2] = 2

(* C2: a VectorValued built from k >= 1 scalar bases has n_basis equal to   *)
(* the sum of the children's n_basis and dim_codomain equal to k.           *)
C2_Counts ==
    (out.op = "init" /\ vv.raised = "None" /\ Len(out.basis_list) >= 1) =>
        /\ vv.n_basis =
               SumSeq([i \in DOMAIN out.basis_list |-> out.basis_list[i].n_basis])
        /\ dim_codomain(vv) = Len(out.basis_list)

C2_Witness ==
    /\ out.op = "init"
    /\ vv.raised = "None"
    /\ Len(out.basis_list) = 3
    /\ vv.n_basis = 5

(* The list breaks a rule of the constructor: a child that is not scalar    *)
(* valued, or one whose domain dimension or range differs from the first's. *)
Misconfigured(bl) ==
    \/ \E i \in DOMAIN bl : bl[i].dim_codomain # 1
    \/ \E i \in DOMAIN bl :
          \/ bl[i].dim_domain # bl[1].dim_domain
          \/ bl[i].domain_range # bl[1].domain_range

(* C3: constructing from a misconfigured list raises ValueError before any  *)
(* attribute of the new object is set, and constructing from a list of      *)
(* scalar children sharing the first child's domain never raises it.        *)
C3_ConfigurationError ==
    out.op = "init" =>
        /\ Misconfigured(out.basis_list) =>
               vv.raised = "ValueError" /\ vv.attrs = {}
        /\ ~Misconfigured(out.basis_list) => vv.raised # "ValueError"

C3_Witness ==
    /\ out.op = "init"
    /\ vv.raised = "ValueError"
    /\ Len(out.basis_list) = 2
    /\ \A i \in DOMAIN out.basis_list : out.basis_list[i].dim_codomain = 1
    /\ out.basis_list[1].dim_domain = out.basis_list[2].dim_domain

(* C5: the Gram matrix is n_basis x n_basis, its i-th diagonal block is     *)
(* child i's own Gram matrix, and every entry outside the diagonal blocks   *)
(* is zero.                                                                 *)
C5_GramBlockDiagonal ==
    out.op = "gram" =>
        LET bl == basis_list(vv)
            m == out.matrix
        IN  /\ Len(m) = vv.n_basis
            /\ \A r \in DOMAIN m : Len(m[r]) = vv.n_basis
            /\ \A i \in DOMAIN bl, j \in DOMAIN bl :
                  \A a \in 1..bl[i].n_basis, b \in 1..bl[j].n_basis :
                      m[Offset(bl, i) + a][Offset(bl, j) + b] =
                          IF i = j THEN ChildGram(bl[i])[a][b] ELSE Zero

C5_Witness ==
    /\ out.op = "gram"
    /\ Len(basis_list(vv)) = 3
    /\ basis_list(vv)[1].n_basis = 2
    /\ basis_list(vv)[3].n_basis = 2

(* C6: differentiating to order d returns the VectorValued basis of the     *)
(* children's d-th derivative bases together with the concatenation, in     *)
(* child order, of each child's differentiated block, child i having been   *)
(* given exactly its own columns of the input.                              *)
C6_DerivativeCommutes ==
    out.op = "derivative" =>
        LET bl == basis_list(vv)
            parts == [i \in DOMAIN bl |->
                         Child_derivative_basis_and_coefs(
                             bl[i],
                             [r \in DOMAIN out.coefs |-> Block(bl, out.coefs[r], i)],
                             out.order)]
        IN  /\ out.result[1].raised = "None"
            /\ basis_list(out.result[1]) = [i \in DOMAIN bl |-> parts[i][1]]
            /\ Len(out.result[2]) = Len(out.coefs)
            /\ \A r \in DOMAIN out.coefs :
                  out.result[2][r] = Flatten([i \in DOMAIN bl |-> parts[i][2][r]])

C6_Witness ==
    /\ out.op = "derivative"
    /\ out.order = 1
    /\ Len(basis_list(vv)) = 3
    /\ basis_list(vv)[1].n_basis = 2
    /\ basis_list(vv)[2].n_basis = 1
    /\ basis_list(vv)[3].n_basis = 2
    /\ Len(out.coefs) = 2

(* C7: for a prefix length j with 1 <= j <= k, the key range(0, j) returns  *)
(* the first n_basis(B1)+...+n_basis(Bj) columns of the coefficient matrix, *)
(* the VectorValued basis of the first j children and the first j           *)
(* coordinate names.                                                        *)
C7_PrefixSelection ==
    (/\ out.op = "coordinate"
     /\ out.key.kind = "range"
     /\ out.key.start = 0
     /\ out.key.step = 1
     /\ out.key.stop >= 1
     /\ out.key.stop <= Len(basis_list(vv))) =>
        LET bl == basis_list(vv)
            j == out.key.stop
            fd == out.fdatabasis
            width == SumSeq([i \in 1..j |-> bl[i].n_basis])
        IN  /\ out.result.raised = "None"
            /\ out.result.coefficients =
                   [r \in DOMAIN fd.coefficients |->
                       SubSeq(fd.coefficients[r], 1, width)]
            /\ out.result.basis.raised = "None"
            /\ basis_list(out.result.basis) = SubSeq(bl, 1, j)
            /\ out.result.basis.n_basis = width
            /\ out.result.coordinate_names = SubSeq(fd.coordinate_names, 1, j)

C7_Witness ==
    /\ out.op = "coordinate"
    /\ out.key = RangeKey(0, 2, 1)
    /\ Len(basis_list(vv)) = 3
    /\ basis_list(vv)[1].n_basis = 2
    /\ basis_list(vv)[3].n_basis = 2
    /\ out.result.raised = "None"

(* The 0-based positions of the children a key names.                       *)
Selected(self, key) ==
    {i \in 0..(dim_codomain(self) - 1) : InRange(i, key)}

(* The key names children with an unnamed child between two of them.        *)
NonContiguous(self, key) ==
    \E a \in Selected(self, key), b \in Selected(self, key) :
        \E c \in (a + 1)..(b - 1) : c \notin Selected(self, key)

(* C9, as claimed: _coordinate_nonfull fails with an error when the key     *)
(* spans non-contiguous coordinates, instead of returning a result.         *)
C9_NonContiguousFails ==
    (out.op = "coordinate" /\ NonContiguous(vv, out.key)) =>
        out.result.raised # "None"

(* The children at positions idx (0-based), their columns and their names.  *)
ChildrenAt(bl, idx) == [n \in DOMAIN idx |-> bl[idx[n] + 1]]

ColumnsAt(bl, coefs, idx) ==
    [r \in DOMAIN coefs |->
        Flatten([n \in DOMAIN idx |-> Block(bl, coefs[r], idx[n] + 1)])]

(* The members of range(start, stop, step), step > 0, below k, ascending.   *)
Stepped(key, k) ==
    LET last == Min(key.stop, k)
        n == IF key.start < last
             THEN ((last - key.start - 1) \div key.step) + 1 ELSE 0
    IN  [m \in 1..n |-> key.start + (m - 1) * key.step]

(* C9, amended: a key range(start, stop, step) with start >= 0, stop >= 0   *)
(* and step >= 2 that names at least one child is not rejected: the call    *)
(* returns the VectorValued basis of exactly the named children in order,   *)
(* with their coefficient columns and their coordinate names.               *)
C9_SteppedRangeSelects ==
    (/\ out.op = "coordinate"
     /\ out.key.kind = "range"
     /\ out.key.start >= 0
     /\ out.key.stop >= 0
     /\ out.key.step >= 2
     /\ Selected(vv, out.key) # {}) =>
        LET bl == basis_list(vv)
            fd == out.fdatabasis
            idx == Stepped(out.key, Len(bl))
        IN  /\ out.result.raised = "None"
            /\ out.result.basis.raised = "None"
            /\ basis_list(out.result.basis) = ChildrenAt(bl, idx)
            /\ out.result.coefficients = ColumnsAt(bl, fd.coefficients, idx)
            /\ out.result.coordinate_names =
                   [n \in DOMAIN idx |-> fd.coordinate_names[idx[n] + 1]]

C9_Witness ==
    /\ out.op = "coordinate"
    /\ out.key = RangeKey(0, 3, 2)
    /\ Len(basis_list(vv)) = 3
    /\ NonContiguous(vv, out.key)
    /\ basis_list(vv)[1].n_basis = 1
    /\ basis_list(vv)[2].n_basis = 2
    /\ basis_list(vv)[3].n_basis = 2
    /\ out.result.raised = "None"

(* C10, as claimed: whenever _coordinate_nonfull returns a result, for an   *)
(* int key or any range, the coefficient matrix has as many columns as the  *)
(* returned basis has functions, and its column blocks (and the coordinate  *)
(* names) are those of the returned basis's children, in their order.       *)
C10_PartitionPreserved ==
    (out.op = "coordinate" /\ out.result.raised = "None") =>
        LET bl == basis_list(vv)
            fd == out.fdatabasis
            idx == SliceIndices(out.key, Len(bl))
        IN  /\ \A r \in DOMAIN out.result.coefficients :
                  Len(out.result.coefficients[r]) = out.result.basis.n_basis
            /\ IF out.key.kind = "int"
               THEN out.result.basis = bl[idx[1] + 1]
               ELSE basis_list(out.result.basis) = ChildrenAt(bl, idx)
            /\ out.result.coefficients = ColumnsAt(bl, fd.coefficients, idx)
            /\ out.result.coordinate_names =
                   [n \in DOMAIN idx |-> fd.coordinate_names[idx[n] + 1]]

----------------------------------------------------------------------------
(* Properties of DDGTransformer (checked under SpecDDG).                    *)

(* C4, as claimed: transform before any fit raises the not-fitted error,    *)
(* and transform(X) after a fit returns an array of shape                   *)
(* (n_samples, number of entries of distributions_).                        *)
C4_TransformContract ==
    dout.op = "transform" =>
        IF ddg.attrs = {}
        THEN dout.call.raised = "NotFittedError"
        ELSE /\ dout.call.raised = "None"
             /\ dout.call.result.shape =
                    <<dout.X.n_samples, Len(ddg.distributions_)>>

----------------------------------------------------------------------------
(* Properties of ParametricPlot (checked under SpecPlot).                   *)

(* The final object exists and is a curve (x(t), y(t)).                     *)
Plottable(self) ==
    IF self.fdata2 = NoFData
    THEN self.fdata1.dim_domain = 1 /\ self.fdata1.dim_codomain = 2
    ELSE /\ self.fdata1.n_samples = self.fdata2.n_samples
         /\ self.fdata1.dim_domain = self.fdata2.dim_domain
         /\ self.fdata1.dim_domain = 1
         /\ self.fdata1.dim_codomain + self.fdata2.dim_codomain = 2

(* C8: plot succeeds and draws exactly one line per sample when the final   *)
(* object has dim_domain 1 and dim_codomain 2; in every other case it       *)
(* raises the configuration error, and then no line has been drawn and no   *)
(* title or axis label has been set.                                        *)
C8_PlotOrConfigurationError ==
    pout.op = "plot" =>
        IF Plottable(pp)
        THEN /\ pout.raised = "None"
             /\ Len(canvas.lines) = Len(pout.before.lines) + pp.fdata1.n_samples
             /\ SubSeq(canvas.lines, 1, Len(pout.before.lines)) = pout.before.lines
        ELSE /\ pout.raised = "ValueError"
             /\ canvas = pout.before

C8_Witness ==
    /\ pout.op = "plot"
    /\ pout.raised = "ValueError"
    /\ pout.chart = "current"
    /\ pp.fdata2 # NoFData
    /\ pp.fdata1.dataset_name # "None"
    /\ pp.fdata1.dim_codomain + pp.fdata2.dim_codomain = 3
    /\ canvas.title = "earlier"

====
